---- MODULE Spec2Model ----
(***************************************************************************)
(* Model of the giveaway application: the realtime store (/games, /users), *)
(* the browser claim flow and page-load enrichment of src/src/App.tsx and  *)
(* the EventSub webhook function (src/unnamed/part_001).                   *)
(*                                                                         *)
(* Every `await` on a store call is a scheduling point: the action that    *)
(* follows it is the store serving the request together with the code      *)
(* that runs from the response up to the next awaited store call (that     *)
(* code touches only the invocation's own variables and the clock).        *)
(***************************************************************************)
EXTENDS Integers, Sequences, FiniteSets, TLC

\* ------------------------------------------------------------------ bounds
MaxOps == 2         \* claim attempts and webhook deliveries in one run
MaxYear == 2        \* calendar years the clock passes through (1..MaxYear)
MaxTickets == 1     \* largest ticketsAvailable of a seeded user record
MaxInFlight == 2    \* page loads, claim flows and invocations running at once
MaxOpsInSequence == 3   \* operations in a run that takes them one at a time
MaxOverlappingCredits == 3  \* deliveries in a run of overlapping invocations
MaxGateDeliveries == 1  \* deliveries in one run of the handler-only specification

\* ------------------------------------------------------------- strings
\* A string is a sequence of one-character strings.
\* Variant of toLowerCase: the string as it is.
KeepCase(s) == s

LowerChar(c) ==
  CASE c = "A" -> "a"
    [] c = "B" -> "b"
    [] c = "C" -> "c"
    [] c = "L" -> "l"
    [] c = "O" -> "o"
    [] OTHER -> c

ToLowerCase(s) == [i \in 1..Len(s) |-> LowerChar(s[i])]

\* Variant of trim: blanks are kept.
KeepBlanks(s) == s

IsSpace(c) == c = " "

RECURSIVE TrimStart(_)
TrimStart(s) == IF s # <<>> /\ IsSpace(Head(s)) THEN TrimStart(Tail(s)) ELSE s

RECURSIVE TrimEnd(_)
TrimEnd(s) ==
  IF s # <<>> /\ IsSpace(s[Len(s)]) THEN TrimEnd(SubSeq(s, 1, Len(s) - 1)) ELSE s

Trim(s) == TrimEnd(TrimStart(s))

\* username.trim().toLowerCase()
NormalizeInput(username) == ToLowerCase(Trim(username))

Absent == << >>      \* an undefined / empty string field

\* ------------------------------------------------------------- universe
Sessions == {"s1", "s2"}            \* browser tabs
Hooks == {"w1", "w2"}               \* concurrent function invocations
GameIds == {"g1", "g2"}

bob == <<"b", "o", "b">>
al == <<"a", "l">>

\* What a visitor may type in a game's username field.
TypedUsernames ==
  { << >>, <<" ">>, <<"B", "o", "b">>, <<" ", "b", "o", "b", " ">>, <<"C", "y">>, al }

GameName(g) == IF g = "g1" THEN "Celeste" ELSE "Hades"

NoYear == 0         \* lastRedemptionYear: null

\* ---------------------------------------------------------------- state
VARIABLES
  games,      \* /games: id -> record
  users,      \* /users: numeric key -> record (only keys that exist)
  year,       \* new Date().getFullYear()
  sess,       \* per browser tab: position in the page load / claim flow, locals, UI state
  hook,       \* per function invocation: position, locals, response
  nOps,       \* claim attempts and webhook deliveries so far
  granted     \* history: per lower-cased username, the tickets seeded plus
              \* the credits addTicketToUser has reported as successful

vars == <<games, users, year, sess, hook, nOps, granted>>

\* Operations between their first and their last store call.
InFlight ==
  Cardinality({s \in DOMAIN sess : sess[s].pc \notin {"unloaded", "ready"}})
  + Cardinality({w \in DOMAIN hook : hook[w].pc \notin {"idle", "done"}})

\* ------------------------------------------------------------ the store
Max(S) == CHOOSE x \in S : \A y \in S : y <= x
Min(S) == CHOOSE x \in S : \A y \in S : x <= y

\* update(ref, fields) / PATCH: only the named fields change.
Patch(rec, fields) ==
  [f \in DOMAIN rec |-> IF f \in DOMAIN fields THEN fields[f] ELSE rec[f]]

\* Object.keys(users).find(key => users[key].username.toLowerCase() === n):
\* the first matching key in ascending key order, 0 when none.
FindUserKey(usersVal, n) ==
  LET hits == {k \in DOMAIN usersVal : ToLowerCase(usersVal[k].username) = n}
  IN IF hits = {} THEN 0 ELSE Min(hits)

\* ------------------------------------------------------ seeded contents
\* Game records are created out of band; a seeded game is unclaimed.
SeedGame(g, img) ==
  [name |-> GameName(g), claimed |-> FALSE, claimedBy |-> Absent,
   giftLink |-> "XXXX-YYYY", imageUrl |-> img, steamLink |-> ""]

SeedUser(name, tickets) ==
  [username |-> name, ticketsAvailable |-> tickets, gamesClaimed |-> << >>,
   lastRedemptionYear |-> NoYear]

\* The /users collection before the first event: empty, or hand-entered
\* records (usernames as typed by the administrator, tickets granted by hand).
SeedUsers ==
  { << >> }
  \cup { <<SeedUser(<<"B", "o", "b">>, t), SeedUser(al, MaxTickets)>> : t \in 0..MaxTickets }

\* Tabs and invocations are interchangeable; they are named in the order
\* in which they are first used.
EarlierSlot(a, b) == a \in {"s1", "w1"} /\ b \in {"s2", "w2"}

\* ------------------------------------------------------- browser session
NoData == << >>

\* A tab between operations: the list it shows (ui) and the game it pins
\* as just claimed are kept, the locals of the finished call are gone.
IdleSession(pc, ui, justClaimedGameId) ==
  [pc |-> pc, data |-> NoData, gameId |-> "", normalizedUsername |-> Absent,
   userKey |-> 0, newTicketCount |-> 0, newGamesClaimed |-> << >>, ui |-> ui,
   justClaimedGameId |-> justClaimedGameId]

\* A claim flow ends with an error message on the game.
Abort(s, g, message) ==
  IdleSession("ready", [sess[s].ui EXCEPT ![g].errorMessage = message],
              sess[s].justClaimedGameId)

\* The list entry the page keeps for a game (useState<Game[]>).
\* usernameVerification[game.id] is kept with the entry; NoEntry is the
\* undefined of a field nothing has been typed or filled into.
NoEntry == <<"(undefined)">>

UiGame(game) ==
  [claimed |-> game.claimed, claimedBy |-> game.claimedBy, giftLink |-> game.giftLink,
   errorMessage |-> "", usernameVerification |-> NoEntry]

\* fetchFilteredGames, first half: get(ref(db, 'games')).
LoadRead(s) ==
  /\ sess[s].pc = "unloaded"
  /\ \A r \in Sessions : EarlierSlot(r, s) => sess[r].pc # "unloaded"
  /\ sess' = [sess EXCEPT ![s].pc = "enrich", ![s].data = games]
  /\ UNCHANGED <<games, users, year, hook, nOps, granted>>

\* updates[key] = { ...game, category } plus the search results for the
\* fields that were missing: the whole record as it was read.
EnrichUpdates(data, found) ==
  [g \in DOMAIN data |->
     [data[g] EXCEPT
        !.imageUrl = IF @ = "" /\ found THEN "cover.png" ELSE @,
        !.steamLink = IF @ = "" /\ found THEN "store" ELSE @]]

\* Object.keys(updates).some(key => updates[key].imageUrl || updates[key].steamLink)
NeedsWriteBack(updates) ==
  \E g \in DOMAIN updates : updates[g].imageUrl # "" \/ updates[g].steamLink # ""

\* update(ref(db, 'games'), updates): every child named in updates is set
\* to the value given for it.
WriteBack(gamesVal, updates) ==
  [g \in DOMAIN gamesVal |-> IF g \in DOMAIN updates THEN updates[g] ELSE gamesVal[g]]

\* fetchFilteredGames, second half: the searches have answered (found: the
\* search service returned a result for each missing field, or for none),
\* the write-back is sent and the list is shown.
LoadFinish(s, found) ==
  /\ sess[s].pc = "enrich"
  /\ LET data == sess[s].data
         updates == EnrichUpdates(data, found)
     IN /\ games' = IF NeedsWriteBack(updates) THEN WriteBack(games, updates) ELSE games
        /\ sess' = [sess EXCEPT ![s] =
                      IdleSession("ready", [g \in DOMAIN data |-> UiGame(updates[g])], "")]
  /\ UNCHANGED <<users, year, hook, nOps, granted>>

\* handleVerifyUsername up to its first await: the username check.
ClaimStart(s, g, typed) ==
  /\ sess[s].pc = "ready"
  /\ ~sess[s].ui[g].claimed          \* the claim button is rendered
  /\ nOps' = nOps + 1
  /\ IF Trim(typed) = << >>
       THEN sess' = [sess EXCEPT ![s] = Abort(s, g, "Please enter a valid username.")]
       ELSE sess' = [sess EXCEPT ![s].pc = "getGame", ![s].gameId = g,
                                 ![s].normalizedUsername = NormalizeInput(typed)]
  /\ UNCHANGED <<games, users, year, hook, granted>>

\* gameData.claimed branch: which message the claimed game gets.
\* Variant: the claimant is not compared.
ClaimedByAnother(gameData, normalizedUsername) ==
  "This game has already been claimed by another user."

ClaimedMessage(gameData, normalizedUsername) ==
  IF normalizedUsername = ToLowerCase(gameData.claimedBy)
    THEN "This game has already been claimed by you."
    ELSE "This game has already been claimed by another user."

\* get(gameRef) and the already-claimed check.
ClaimReadGame(s) ==
  /\ sess[s].pc = "getGame"
  /\ LET g == sess[s].gameId
         gameData == games[g]
     IN IF gameData.claimed
          THEN sess' = [sess EXCEPT ![s] =
                 Abort(s, g, ClaimedMessage(gameData, sess[s].normalizedUsername))]
          ELSE sess' = [sess EXCEPT ![s].pc = "getUsers"]
  /\ UNCHANGED <<games, users, year, hook, nOps, granted>>

NotEnoughTickets == "You do not have enough tickets to claim this game."

\* user && user.ticketsAvailable > 0
\* Variants of the ticket check: the balance is not looked at; a balance
\* of zero passes.
HasRecord(usersVal, userKey) == userKey # 0

HasTicketOrNone(usersVal, userKey) ==
  userKey # 0 /\ usersVal[userKey].ticketsAvailable >= 0

HasTicket(usersVal, userKey) ==
  userKey # 0 /\ usersVal[userKey].ticketsAvailable > 0

\* get(usersRef), the lookup and the ticket check.
ClaimReadUsers(s) ==
  /\ sess[s].pc = "getUsers"
  /\ LET g == sess[s].gameId
         userKey == FindUserKey(users, sess[s].normalizedUsername)
     IN IF DOMAIN users = {}
          THEN sess' = [sess EXCEPT ![s] =
                 Abort(s, g, "Error fetching user data from the database.")]
          ELSE IF HasTicket(users, userKey)
            THEN sess' = [sess EXCEPT
                   ![s].pc = "updUser",
                   ![s].userKey = userKey,
                   ![s].newTicketCount = users[userKey].ticketsAvailable - 1,
                   ![s].newGamesClaimed =
                      Append(users[userKey].gamesClaimed, GameName(g))]
            ELSE sess' = [sess EXCEPT ![s] = Abort(s, g, NotEnoughTickets)]
  /\ UNCHANGED <<games, users, year, hook, nOps, granted>>

\* update(ref(db, `users/${userKey}`), { ticketsAvailable, gamesClaimed })
\* Variant of the user update: the game is recorded, the ticket is kept.
ClaimUserFieldsKeepingTicket(s) ==
  [gamesClaimed |-> sess[s].newGamesClaimed]

\* Variant of the user update: the game is not appended.
ClaimUserFieldsWithoutGame(s) ==
  [ticketsAvailable |-> sess[s].newTicketCount]

ClaimUserFields(s) ==
  [ticketsAvailable |-> sess[s].newTicketCount,
   gamesClaimed |-> sess[s].newGamesClaimed]

ClaimWriteUser(s) ==
  /\ sess[s].pc = "updUser"
  /\ users' = [users EXCEPT ![sess[s].userKey] = Patch(@, ClaimUserFields(s))]
  /\ sess' = [sess EXCEPT ![s].pc = "updGame"]
  /\ UNCHANGED <<games, year, hook, nOps, granted>>

\* update(gameRef, { claimed: true, claimedBy: normalizedUsername })
\* Variant of the game update: the claimant is not recorded.
ClaimGameFieldsWithoutClaimant(s) == [claimed |-> TRUE]

ClaimGameFields(s) ==
  [claimed |-> TRUE, claimedBy |-> sess[s].normalizedUsername]

ClaimWriteGame(s) ==
  /\ sess[s].pc = "updGame"
  /\ LET g == sess[s].gameId
         n == sess[s].normalizedUsername
     IN /\ games' = [games EXCEPT ![g] = Patch(@, ClaimGameFields(s))]
        /\ sess' = [sess EXCEPT ![s] =
                      IdleSession("ready",
                        [sess[s].ui EXCEPT ![g] =
                           [@ EXCEPT !.claimed = TRUE, !.claimedBy = n, !.errorMessage = "",
                                     !.usernameVerification = n]],
                        g)]
  /\ UNCHANGED <<users, year, hook, nOps, granted>>

\* handleUsernameVerificationChange: the visitor types into the field of a
\* claimed game.
VerificationChange(s, g, value) ==
  /\ sess[s].pc = "ready"
  /\ sess[s].ui[g].claimed
  /\ sess' = [sess EXCEPT ![s].ui[g].usernameVerification = value]
  /\ UNCHANGED <<games, users, year, hook, nOps, granted>>

\* x?.toLowerCase(): undefined stays undefined.
OptionalLowerCase(x, undefined) == IF x = undefined THEN NoEntry ELSE ToLowerCase(x)

\* game.claimedBy?.toLowerCase() === usernameVerification[game.id]?.toLowerCase()
\* Variant: the two are compared as they are.
IsVerifiedUserExactly(game) == game.claimedBy = game.usernameVerification

IsVerifiedUser(game) ==
  OptionalLowerCase(game.claimedBy, Absent)
    = OptionalLowerCase(game.usernameVerification, NoEntry)

\* game.claimedBy?.toLowerCase() != usernameVerification[game.id]?.toLowerCase()
IsNotVerifiedUser(game) ==
  OptionalLowerCase(game.claimedBy, Absent)
    # OptionalLowerCase(game.usernameVerification, NoEntry)

\* What the card of a claimed game renders under the verification field.
ShowsCode(game) == game.claimed /\ IsVerifiedUser(game) /\ game.giftLink # ""
ShowsHint(game) == game.claimed /\ IsNotVerifiedUser(game) /\ game.giftLink # ""

UnexpectedError == "An unexpected error occurred. Please try again."

\* catch (error): a get or an update of the flow rejects (the request is
\* not applied); the generic message is shown and the flow ends.
ClaimCallFails(s) ==
  /\ sess[s].pc \in {"getGame", "getUsers", "updUser", "updGame"}
  /\ sess' = [sess EXCEPT ![s] = Abort(s, sess[s].gameId, UnexpectedError)]
  /\ UNCHANGED <<games, users, year, hook, nOps, granted>>

\* ---------------------------------------------------------- the webhook
MESSAGE_TYPE_VERIFICATION == "webhook_callback_verification"
MESSAGE_TYPE_NOTIFICATION == "notification"
MESSAGE_TYPE_REVOCATION == "revocation"
REWARD_TITLE == "Redeem a Free Game!"
REDEMPTION_ADD == "channel.channel_points_custom_reward_redemption.add"

\* A signature string is a sequence of tokens, each of a known byte length:
\* the literal prefix, the 64 hex digits of a digest, or a stray character.
\* The HMAC is an ideal keyed hash: the digest of (secret, message) is the
\* pair itself, so two digests agree exactly when secret and message agree.
PrefixToken == [bytes |-> 7, text |-> "sha256=", digest |-> << >>]
HexToken(secret, message) == [bytes |-> 64, text |-> "", digest |-> <<secret, message>>]
StrayToken == [bytes |-> 1, text |-> "x", digest |-> << >>]

RECURSIVE ByteLength(_)
ByteLength(sig) == IF sig = << >> THEN 0 ELSE Head(sig).bytes + ByteLength(Tail(sig))

\* 'sha256=' + createHmac('sha256', secret).update(messageId + timestamp + body).digest('hex')
ExpectedSignature(messageId, timestamp, body, secret) ==
  <<PrefixToken, HexToken(secret, messageId \o timestamp \o body)>>

\* crypto.timingSafeEqual(a, b): throws a RangeError when the byte lengths
\* differ, otherwise says whether the bytes agree.
TimingSafeEqual(a, b) ==
  IF ByteLength(a) # ByteLength(b) THEN "RangeError"
  ELSE IF a = b THEN "true" ELSE "false"

VerifySignature(messageId, timestamp, body, signature, secret) ==
  TimingSafeEqual(ExpectedSignature(messageId, timestamp, body, secret), signature)

\* if (signature && ...): an absent header and an empty one are both falsy.
\* Variant of the guard: every request is verified, signed or not.
SignatureRequired(signature) == TRUE

SignaturePresent(signature) == signature # << >>

\* A request body is the serialised payload, or text that is not JSON;
\* JSON.parse gives the payload back, or throws a SyntaxError.
JsonStringify(payload) == <<"json", payload>>
NotJson == <<"text", "oops">>
IsJson(body) == body[1] = "json"
JsonParse(body) == body[2]

\* A property the payload does not have: payload.subscription when it is
\* the subscription type, payload.event.reward when it is the reward title.
\* Reading a property of it throws a TypeError.
Undefined == "undefined"

Payload(subscriptionType, rewardTitle, userLogin, challenge) ==
  [subscriptionType |-> subscriptionType, rewardTitle |-> rewardTitle,
   userLogin |-> userLogin, challenge |-> challenge]

Redemption(userLogin) == Payload(REDEMPTION_ADD, REWARD_TITLE, userLogin, "")

Logins == { <<"B", "O", "B">>, <<"c", "y">> }

\* The payloads a delivery may carry, with the message type it comes under.
Deliveries ==
  { <<MESSAGE_TYPE_VERIFICATION, Payload("", "", << >>, "abc123")>>,
    <<MESSAGE_TYPE_REVOCATION, Payload(REDEMPTION_ADD, "", << >>, "")>>,
    <<"other", Payload("", "", << >>, "")>>,
    <<MESSAGE_TYPE_NOTIFICATION, Payload(REDEMPTION_ADD, "Hydrate!", al, "")>>,
    <<MESSAGE_TYPE_NOTIFICATION, Payload("channel.follow", "", al, "")>>,
    <<MESSAGE_TYPE_NOTIFICATION, Payload(Undefined, "", << >>, "")>>,
    <<MESSAGE_TYPE_NOTIFICATION, Payload(REDEMPTION_ADD, Undefined, al, "")>>,
    <<MESSAGE_TYPE_REVOCATION, Payload(Undefined, "", << >>, "")>> }
  \cup { <<MESSAGE_TYPE_NOTIFICATION, Redemption(l)>> : l \in Logins }

MessageId == <<"m", "1">>
Timestamp == <<"t", "1">>
TheSecret == "s3cret"

\* The signature header of a delivery: missing, the sender's signature, the
\* signature of another body (same length, other digest), or a value of
\* another length.
SignaturesFor(body) ==
  { << >>,
    ExpectedSignature(MessageId, Timestamp, body, TheSecret),
    ExpectedSignature(MessageId, Timestamp, JsonStringify(Payload("", "", << >>, "")), TheSecret),
    <<PrefixToken, StrayToken>> }

Event(messageType, signature, body) ==
  [messageId |-> MessageId, timestamp |-> Timestamp, signature |-> signature,
   messageType |-> messageType, body |-> body]

Events ==
  UNION { { Event(d[1], sig, JsonStringify(d[2])) : sig \in SignaturesFor(JsonStringify(d[2])) } :
            d \in Deliveries }
  \cup { Event(MESSAGE_TYPE_VERIFICATION, sig, NotJson) : sig \in SignaturesFor(NotJson) }

\* process.env as an invocation finds it.
Envs ==
  { [secret |-> TheSecret, databaseUrl |-> "https://db"],
    [secret |-> "", databaseUrl |-> "https://db"],
    [secret |-> TheSecret, databaseUrl |-> ""] }

NoEvent == Event("", << >>, << >>)
NoEnv == [secret |-> "", databaseUrl |-> ""]
NoResponse == [statusCode |-> 0, body |-> ""]

Response(statusCode, body) == [statusCode |-> statusCode, body |-> body]

NewHook(pc, event, env) ==
  [pc |-> pc, event |-> event, env |-> env, username |-> Absent,
   key |-> 0, ticketsAvailable |-> 0, currentYear |-> NoYear,
   response |-> NoResponse, result |-> "", error |-> ""]

\* The invocation returns: what it was called with, what it answered and
\* what addTicketToUser returned stay visible until the slot is used again.
Return(h, response, result) ==
  [h EXCEPT !.pc = "done", !.response = response, !.result = result,
            !.username = Absent, !.key = 0]

\* An exception leaves the handler: no response object is returned.
Throw(h, error) ==
  [h EXCEPT !.pc = "done", !.error = error]

\* if (!secret)
\* Variant: a missing secret is not noticed.
SecretNeverMissing(secret) == FALSE

SecretMissing(secret) == secret = ""

\* if (!FIREBASE_DATABASE_URL)
DatabaseUrlMissing(databaseUrl) == databaseUrl = ""

\* The answer to a verification challenge.
\* Variant: the challenge is acknowledged, not echoed.
ChallengeAcknowledged(payload) == Response(200, "OK")

ChallengeResponse(payload) == Response(200, payload.challenge)

\* The answer to a revocation, and to every notification.
NoContent == Response(204, "")

\* eventType === '...redemption.add' and rewardTitle === REWARD_TITLE
IsTargetReward(payload) ==
  /\ payload.subscriptionType = REDEMPTION_ADD
  /\ payload.rewardTitle = REWARD_TITLE

\* handler(event) up to the first awaited store call: configuration,
\* signature, message type, reward title.
Handle(h) ==
  LET e == h.event
      secret == h.env.secret
      payload == JsonParse(e.body)
      verdict == VerifySignature(e.messageId, e.timestamp, e.body, e.signature, secret)
  IN IF SecretMissing(secret)
       THEN Return(h, Response(500, "Server configuration error"), "")
     ELSE IF DatabaseUrlMissing(h.env.databaseUrl)
       THEN Return(h, Response(500, "Server configuration error"), "")
     ELSE IF SignaturePresent(e.signature) /\ verdict = "RangeError"
       THEN Throw(h, "RangeError")
     ELSE IF SignaturePresent(e.signature) /\ verdict = "false"
       THEN Return(h, Response(403, "Invalid signature"), "")
     ELSE IF ~IsJson(e.body)
       THEN Throw(h, "SyntaxError")
     ELSE IF e.messageType = MESSAGE_TYPE_VERIFICATION
       THEN Return(h, ChallengeResponse(payload), "")
     ELSE IF e.messageType = MESSAGE_TYPE_REVOCATION
       THEN IF payload.subscriptionType = Undefined
              THEN Throw(h, "TypeError")
              ELSE Return(h, NoContent, "")
     ELSE IF e.messageType = MESSAGE_TYPE_NOTIFICATION
       THEN IF payload.subscriptionType = Undefined
              THEN Throw(h, "TypeError")
            ELSE IF payload.subscriptionType = REDEMPTION_ADD /\ payload.rewardTitle = Undefined
              THEN Throw(h, "TypeError")
            ELSE IF IsTargetReward(payload)
              THEN [h EXCEPT !.pc = "getUsers", !.username = payload.userLogin]
              ELSE Return(h, NoContent, "")
     ELSE Return(h, Response(200, "OK"), "")

\* The function runtime hands a delivery to a fresh invocation, which runs
\* to its first awaited store call or to its return.
HookReceive(w, event, env) ==
  /\ hook[w].pc \in {"idle", "done"}
  /\ \A v \in Hooks : EarlierSlot(v, w) => hook[v].pc # "idle"
  /\ nOps' = nOps + 1
  /\ hook' = [hook EXCEPT ![w] = Handle(NewHook("received", event, env))]
  /\ UNCHANGED <<games, users, year, sess, granted>>

\* getOrCreateUser: the first record whose lower-cased username is the
\* lower-cased login, in key order; 0 when none.
FindExistingUser(usersVal, username) ==
  FindUserKey(usersVal, ToLowerCase(username))

\* Math.max(...existingKeys) + 1, or 1
NextKey(usersVal) ==
  IF DOMAIN usersVal = {} THEN 1 ELSE Max(DOMAIN usersVal) + 1

\* Variant of the new record: it starts with a ticket.
NewUserWithTicket(username) ==
  [username |-> ToLowerCase(username), ticketsAvailable |-> 1,
   gamesClaimed |-> << >>, lastRedemptionYear |-> NoYear]

NewUser(username) ==
  [username |-> ToLowerCase(username), ticketsAvailable |-> 0,
   gamesClaimed |-> << >>, lastRedemptionYear |-> NoYear]

\* if (user.lastRedemptionYear === currentYear)
\* Variant of the year check: any earlier redemption counts.
RedeemedEver(user, currentYear) == user.lastRedemptionYear # NoYear

AlreadyRedeemed(user, currentYear) == user.lastRedemptionYear = currentYear

\* addTicketToUser from the point where getOrCreateUser has returned
\* { key, user }: the year check, then the PATCH is sent.
CreditOrReject(h, key, user) ==
  IF AlreadyRedeemed(user, year)
    THEN Return([h EXCEPT !.key = key, !.currentYear = year],
                Response(204, ""), "already_redeemed_this_year")
    ELSE [h EXCEPT !.pc = "patchUser", !.key = key, !.currentYear = year,
                   !.ticketsAvailable = user.ticketsAvailable + 1]

\* fetch(`/users.json`) answers; an existing user goes on to the year check,
\* a new one to the PUT.
HookReadUsers(w) ==
  /\ hook[w].pc = "getUsers"
  /\ LET h == hook[w]
         key == FindExistingUser(users, h.username)
     IN hook' = [hook EXCEPT ![w] =
          IF key # 0 THEN CreditOrReject(h, key, users[key])
          ELSE [h EXCEPT !.pc = "putUser", !.key = NextKey(users)]]
  /\ UNCHANGED <<games, users, year, sess, nOps, granted>>

\* PUT /users/${nextKey}.json: the record at that key is replaced.
PutUser(usersVal, key, user) ==
  [k \in DOMAIN usersVal \cup {key} |-> IF k = key THEN user ELSE usersVal[k]]

HookPutUser(w) ==
  /\ hook[w].pc = "putUser"
  /\ LET h == hook[w]
         newUser == NewUser(h.username)
     IN /\ users' = PutUser(users, h.key, newUser)
        /\ hook' = [hook EXCEPT ![w] = CreditOrReject(h, h.key, newUser)]
  /\ UNCHANGED <<games, year, sess, nOps, granted>>

\* PATCH body: { ticketsAvailable, lastRedemptionYear }
\* Variant of the credit: the year of the redemption is not recorded.
CreditFieldsWithoutYear(h) ==
  [ticketsAvailable |-> h.ticketsAvailable]

\* Variant of the credit: the whole record is written, with no games.
CreditFieldsWholeRecord(h) ==
  [ticketsAvailable |-> h.ticketsAvailable, lastRedemptionYear |-> h.currentYear,
   gamesClaimed |-> << >>]

CreditFields(h) ==
  [ticketsAvailable |-> h.ticketsAvailable, lastRedemptionYear |-> h.currentYear]

\* PATCH /users/${key}.json, then return { success: true, ticketsAvailable }.
HookPatchUser(w) ==
  /\ hook[w].pc = "patchUser"
  /\ users' = [users EXCEPT ![hook[w].key] = Patch(@, CreditFields(hook[w]))]
  /\ hook' = [hook EXCEPT ![w] = Return(@, Response(204, ""), "success")]
  /\ granted' = [granted EXCEPT ![ToLowerCase(hook[w].username)] = @ + 1]
  /\ UNCHANGED <<games, year, sess, nOps>>

\* catch (error) around addTicketToUser: the failure is logged and the
\* handler goes on to its 204.
Caught(h) == Return(h, NoContent, "error")

\* A fetch of the invocation rejects (the request is not applied).
HookCallFails(w) ==
  /\ hook[w].pc \in {"getUsers", "putUser", "patchUser"}
  /\ hook' = [hook EXCEPT ![w] = Caught(@)]
  /\ UNCHANGED <<games, users, year, sess, nOps, granted>>

\* The calendar year changes.
Tick ==
  /\ year < MaxYear
  /\ year' = year + 1
  /\ UNCHANGED <<games, users, sess, hook, nOps, granted>>

\* ------------------------------------------------------- specification
\* Every lower-cased username of the model.
Names == { NormalizeInput(typed) : typed \in TypedUsernames \ { << >>, <<" ">> } }
         \cup { ToLowerCase(l) : l \in Logins }

SeededTickets(usersVal, n) ==
  IF FindUserKey(usersVal, n) = 0 THEN 0
  ELSE usersVal[FindUserKey(usersVal, n)].ticketsAvailable

Init ==
  /\ games = [g \in GameIds |-> SeedGame(g, IF g = "g1" THEN "cover.png" ELSE "")]
  /\ users \in SeedUsers
  /\ year = 1
  /\ sess = [s \in Sessions |-> IdleSession("unloaded", << >>, "")]
  /\ hook = [w \in Hooks |-> NewHook("idle", NoEvent, NoEnv)]
  /\ nOps = 0
  /\ granted = [n \in Names |-> SeededTickets(users, n)]

\* The deliveries the whole-system specification draws from: signed
\* notifications in a configured deployment (what the handler does with
\* every other delivery is explored under SpecGate).
SignedEvent(d) ==
  Event(d[1], ExpectedSignature(MessageId, Timestamp, JsonStringify(d[2]), TheSecret),
        JsonStringify(d[2]))

SystemEvents ==
  { SignedEvent(<<MESSAGE_TYPE_NOTIFICATION, Redemption(l)>>) : l \in Logins }

Configured == [secret |-> TheSecret, databaseUrl |-> "https://db"]

\* A bounded run: another operation may begin.
MayBegin == nOps < MaxOps /\ InFlight < MaxInFlight

LoadStep(s) ==
  \/ InFlight < MaxInFlight /\ LoadRead(s)
  \/ \E found \in BOOLEAN : LoadFinish(s, found)

ClaimStep(s) ==
  \/ \E g \in GameIds, typed \in TypedUsernames : MayBegin /\ ClaimStart(s, g, typed)
  \/ ClaimReadGame(s)
  \/ ClaimReadUsers(s)
  \/ ClaimWriteUser(s)
  \/ ClaimWriteGame(s)

HookStep(w) ==
  \/ HookReadUsers(w)
  \/ HookPutUser(w)
  \/ HookPatchUser(w)

Next ==
  \/ \E s \in Sessions : LoadStep(s)
  \/ \E s \in Sessions : ClaimStep(s)
  \/ \E w \in Hooks, event \in SystemEvents : MayBegin /\ HookReceive(w, event, Configured)
  \/ \E w \in Hooks : HookStep(w)
  \/ Tick

Spec == Init /\ [][Next]_vars

\* The browser alone: page loads and claim flows of the tabs, interleaved.
NextClaims ==
  \/ \E s \in Sessions : LoadStep(s)
  \/ \E s \in Sessions : ClaimStep(s)

SpecClaims == Init /\ [][NextClaims]_vars

\* The webhook alone: concurrent invocations crediting tickets.
NextCredits ==
  \/ \E w \in Hooks, event \in SystemEvents : MayBegin /\ HookReceive(w, event, Configured)
  \/ \E w \in Hooks : HookStep(w)
  \/ Tick

SpecCredits == Init /\ [][NextCredits]_vars

\* The webhook alone, one invocation after the other: a delivery arrives
\* only when no invocation is running.
NextCreditsInSequence ==
  \/ \E w \in Hooks, event \in SystemEvents :
       nOps < MaxOps /\ InFlight = 0 /\ HookReceive(w, event, Configured)
  \/ \E w \in Hooks : HookStep(w)
  \/ Tick

SpecCreditsInSequence == Init /\ [][NextCreditsInSequence]_vars

\* The handler alone, over every delivery and every configuration.
NextGate ==
  \/ \E w \in Hooks, event \in Events, env \in Envs :
       nOps < MaxGateDeliveries /\ HookReceive(w, event, env)
  \/ \E w \in Hooks : HookStep(w)
  \/ Tick

SpecGate == Init /\ [][NextGate]_vars

\* The browser alone, with store calls that may fail.
NextClaimsFailing ==
  \/ NextClaims
  \/ \E s \in Sessions : ClaimCallFails(s)

SpecClaimsFailing == Init /\ [][NextClaimsFailing]_vars

\* The handler alone, with store calls that may fail.
NextGateFailing ==
  \/ NextGate
  \/ \E w \in Hooks : HookCallFails(w)

SpecGateFailing == Init /\ [][NextGateFailing]_vars

\* The whole system, one operation after the other: a claim attempt or a
\* delivery begins only when nothing is running.
NextInSequence ==
  \/ \E s \in Sessions : InFlight = 0 /\ LoadRead(s)
  \/ \E s \in Sessions, found \in BOOLEAN : LoadFinish(s, found)
  \/ \E s \in Sessions, g \in GameIds, typed \in TypedUsernames :
       nOps < MaxOpsInSequence /\ InFlight = 0 /\ ClaimStart(s, g, typed)
  \/ \E s \in Sessions :
       ClaimReadGame(s) \/ ClaimReadUsers(s) \/ ClaimWriteUser(s) \/ ClaimWriteGame(s)
  \/ \E w \in Hooks, event \in SystemEvents :
       nOps < MaxOpsInSequence /\ InFlight = 0 /\ HookReceive(w, event, Configured)
  \/ \E w \in Hooks : HookStep(w)
  \/ Tick

SpecInSequence == Init /\ [][NextInSequence]_vars

\* The webhook alone over a longer run: an invocation may begin while
\* another is running, after earlier ones have returned.
NextCreditsOverlapping ==
  \/ \E w \in Hooks, event \in SystemEvents :
       /\ nOps < MaxOverlappingCredits /\ InFlight < MaxInFlight
       /\ HookReceive(w, event, Configured)
  \/ \E w \in Hooks : HookStep(w)
  \/ Tick

SpecCreditsOverlapping == Init /\ [][NextCreditsOverlapping]_vars

\* What a visitor leaves in a verification field: nothing, the claimant's
\* name with a capital, another name.
VerificationInputs == { << >>, <<"B", "o", "b">>, al }

\* The browser alone, with visitors typing into the verification fields of
\* claimed games.
NextReveal ==
  \/ NextClaims
  \/ \E s \in Sessions, g \in GameIds, value \in VerificationInputs :
       VerificationChange(s, g, value)

SpecReveal == Init /\ [][NextReveal]_vars

\* =============================================================== claims
\* A claim flow of tab s takes a step (its position changes).
FlowStep(s, from, to) == sess[s].pc = from /\ sess'[s].pc = to

\* ------------------------------------------------------------------- C1
\* C1: once a game's record has claimed = true with claimedBy = u, no later
\* claim flow changes claimedBy to a different username.
C1_ClaimedByNeverReassigned ==
  [][\A g \in GameIds :
       (games[g].claimed /\ games'[g].claimed) => games'[g].claimedBy = games[g].claimedBy]_vars

\* ------------------------------------------------------------------- C2
GamesClaimedBy(n) == {g \in GameIds : games[g].claimed /\ games[g].claimedBy = n}

\* C2: the number of games a user has successfully claimed never exceeds
\* the number of tickets credited to that user.
C2_ClaimsWithinTickets ==
  \A n \in Names : Cardinality(GamesClaimedBy(n)) <= granted[n]

\* ------------------------------------------------------------------- C3
\* C3: in every reachable state of the store, every user record has
\* ticketsAvailable >= 0.
C3_TicketsNeverNegative ==
  \A k \in DOMAIN users : users[k].ticketsAvailable >= 0

\* A record that has been credited by the webhook and debited by a claim,
\* and holds no ticket.
C3_Witness ==
  \E k \in DOMAIN users :
    /\ users[k].lastRedemptionYear # NoYear
    /\ users[k].gamesClaimed # << >>
    /\ users[k].ticketsAvailable = 0

\* ------------------------------------------------------------------- C4
Succeeded(w) == hook[w].pc = "done" /\ hook[w].result = "success"

LoginOf(w) == ToLowerCase(JsonParse(hook[w].event.body).userLogin)

\* C4: for any user and any calendar year, at most one invocation of
\* addTicketToUser returns success, under any interleaving of invocations.
C4_OneCreditPerUserAndYear ==
  \A w, v \in Hooks :
    (w # v /\ Succeeded(w) /\ Succeeded(v) /\ LoginOf(w) = LoginOf(v))
      => hook[w].currentYear # hook[v].currentYear

\* ------------------------------------------------------------------- C5
\* Tab s has completed a claim of game g (the page pins it as just claimed).
ClaimedIn(s, g) == sess[s].pc # "unloaded" /\ sess[s].justClaimedGameId = g

ClaimantIn(s, g) == sess[s].ui[g].claimedBy

\* Both tabs have completed a claim of the same game under different names.
RacedFor(s, t, g) ==
  /\ s # t /\ ClaimedIn(s, g) /\ ClaimedIn(t, g)
  /\ ClaimantIn(s, g) # ClaimantIn(t, g)

\* The ledger shows fewer tickets for n than were granted to n.
Debited(n) ==
  /\ FindUserKey(users, n) # 0
  /\ users[FindUserKey(users, n)].ticketsAvailable < granted[n]

\* C5: when two claim flows for the same game by two different users have
\* both passed the check and completed, both users have been debited and
\* the game names exactly one of them as claimedBy: one ticket is spent
\* without a game being awarded.
C5_RaceSpendsTicketWithoutAward ==
  \A s, t \in Sessions, g \in GameIds :
    RacedFor(s, t, g) =>
      /\ games[g].claimed
      /\ games[g].claimedBy \in {ClaimantIn(s, g), ClaimantIn(t, g)}
      /\ Debited(ClaimantIn(s, g))
      /\ Debited(ClaimantIn(t, g))

C5_Witness ==
  \E s, t \in Sessions, g \in GameIds :
    /\ RacedFor(s, t, g)
    /\ games[g].claimedBy = ClaimantIn(t, g)
    /\ Debited(ClaimantIn(s, g))
    /\ Debited(ClaimantIn(t, g))

\* ------------------------------------------------------------------- C6
\* C6: the write-back that ends a page load leaves the claimed and
\* claimedBy values of every game as they are in the store.
C6_WriteBackKeepsClaims ==
  [][\A s \in Sessions :
       FlowStep(s, "enrich", "ready") =>
         \A g \in GameIds : /\ games'[g].claimed = games[g].claimed
                            /\ games'[g].claimedBy = games[g].claimedBy]_vars
\* ------------------------------------------------------------------- C7
\* addTicketToUser returns in invocation w.
CreditReturns(w) ==
  hook[w].pc \in {"getUsers", "putUser", "patchUser"} /\ hook'[w].pc = "done"

\* C7: of two credit calls made one after the other for the same user in
\* the same calendar year, the first returns success with the incremented
\* balance and the second returns already_redeemed_this_year and leaves
\* the user record unchanged: one net increment. Stated for every call: a
\* call that finds the user's lastRedemptionYear equal to the current year
\* is rejected and writes nothing; any other call succeeds, returns the
\* stored balance plus one and stores exactly that with the current year;
\* and no two calls succeed for the same user and year.
C7_SecondCreditRejected ==
  [][/\ \A w \in Hooks :
          CreditReturns(w) =>
            LET h == hook'[w]
                k == FindUserKey(users, ToLowerCase(JsonParse(h.event.body).userLogin))
            IN IF k # 0 /\ users[k].lastRedemptionYear = h.currentYear
                 THEN /\ h.result = "already_redeemed_this_year"
                      /\ users' = users
                 ELSE /\ k # 0
                      /\ h.result = "success"
                      /\ h.ticketsAvailable = users[k].ticketsAvailable + 1
                      /\ users' = [users EXCEPT
                                     ![k].ticketsAvailable = @ + 1,
                                     ![k].lastRedemptionYear = h.currentYear]
     /\ C4_OneCreditPerUserAndYear']_vars

C7_Witness ==
  \E w, v \in Hooks :
    /\ Succeeded(w)
    /\ hook[v].pc = "done" /\ hook[v].result = "already_redeemed_this_year"
    /\ LoginOf(w) = LoginOf(v)
    /\ hook[w].currentYear = hook[v].currentYear
    /\ users[FindUserKey(users, LoginOf(w))].ticketsAvailable = hook[w].ticketsAvailable

\* ------------------------------------------------------------------- C8
\* The user a flow claims for has no record, or a record without a ticket.
Broke(s) ==
  LET k == FindUserKey(users, sess[s].normalizedUsername)
  IN k = 0 \/ users[k].ticketsAvailable = 0

ErrorShown(s, g) == sess'[s].ui[g].errorMessage

StoreUnchanged == games' = games /\ users' = users

\* C8 as stated: a claim attempt for a user without a ticket (or without a
\* record) never gets to a write and ends with the 'not enough tickets'
\* message on the game, whatever the game.
C8_NoTicketNotEnoughMessage ==
  [][\A s \in Sessions :
       (sess[s].pc \in {"getGame", "getUsers"} /\ sess'[s] # sess[s] /\ Broke(s)) =>
         /\ StoreUnchanged
         /\ sess'[s].pc \in {"getUsers", "ready"}
         /\ sess'[s].pc = "ready" => ErrorShown(s, sess[s].gameId) = NotEnoughTickets]_vars

\* C8 as amended: such an attempt never gets to a write; it ends with the
\* already-claimed message when the game is already claimed, with the
\* user-data error when the user collection is empty, and with 'not enough
\* tickets' otherwise.
C8_NoTicketNoWrite ==
  [][\A s \in Sessions :
       (sess[s].pc \in {"getGame", "getUsers"} /\ sess'[s] # sess[s] /\ Broke(s)) =>
         LET g == sess[s].gameId
         IN /\ StoreUnchanged
            /\ FlowStep(s, "getGame", "getUsers") \/ sess'[s].pc = "ready"
            /\ FlowStep(s, "getGame", "getUsers") => ~games[g].claimed
            /\ FlowStep(s, "getGame", "ready") =>
                 /\ games[g].claimed
                 /\ ErrorShown(s, g) =
                      IF ToLowerCase(games[g].claimedBy) = sess[s].normalizedUsername
                        THEN "This game has already been claimed by you."
                        ELSE "This game has already been claimed by another user."
            /\ FlowStep(s, "getUsers", "ready") =>
                 ErrorShown(s, g) =
                   IF DOMAIN users = {}
                     THEN "Error fetching user data from the database."
                     ELSE NotEnoughTickets]_vars

\* A flow for a user with a record but no ticket has just been turned away.
C8_Witness ==
  \E s \in Sessions, g \in GameIds :
    /\ sess[s].pc = "ready"
    /\ sess[s].ui[g].errorMessage = NotEnoughTickets
    /\ ~games[g].claimed
    /\ \E k \in DOMAIN users : users[k].ticketsAvailable = 0

\* ------------------------------------------------------------------- C9
Handled(w) == hook[w].event # NoEvent /\ hook[w].env = Configured

BadlySigned(e, secret) ==
  /\ e.signature # Absent
  /\ e.signature # ExpectedSignature(e.messageId, e.timestamp, e.body, secret)

\* C9: every request whose signature header is present and differs from the
\* expected signature (values of another length included) is answered 403,
\* with no store access and no challenge echoed.
C9_BadSignatureAnswered403 ==
  \A w \in Hooks :
    (Handled(w) /\ BadlySigned(hook[w].event, hook[w].env.secret)) =>
      /\ hook[w].pc = "done"
      /\ hook[w].response = Response(403, "Invalid signature")
      /\ hook[w].result = ""

\* ------------------------------------------------------------------ C10
Signed(e, secret) ==
  [e EXCEPT !.signature = ExpectedSignature(e.messageId, e.timestamp, e.body, secret)]

\* What the handler does with a delivery before its first store call, the
\* delivery itself left out.
GateOutcome(e, env) == [Handle(NewHook("received", e, env)) EXCEPT !.event = NoEvent]

IsRewardRedemption(e) ==
  /\ e.messageType = MESSAGE_TYPE_NOTIFICATION
  /\ JsonParse(e.body).subscriptionType = REDEMPTION_ADD
  /\ JsonParse(e.body).rewardTitle = REWARD_TITLE

Unsigned(w) == Handled(w) /\ hook[w].event.signature = Absent

\* C10: a request without a signature header is processed as the same
\* request carrying a valid signature is: it is never refused, the handler
\* takes the same branch with the same response, and an unsigned
\* notification of the reward goes through the credit operation.
C10_UnsignedProcessedAsSigned ==
  \A w \in Hooks :
    Unsigned(w) =>
      LET e == hook[w].event
      IN /\ GateOutcome(e, hook[w].env) = GateOutcome(Signed(e, hook[w].env.secret), hook[w].env)
         /\ hook[w].error # "RangeError"
         /\ hook[w].response.statusCode # 403
         /\ (hook[w].pc = "done" /\ IsRewardRedemption(e)) =>
              hook[w].result \in {"success", "already_redeemed_this_year"}
         /\ (hook[w].pc = "done" /\ ~IsRewardRedemption(e)) =>
              hook[w] = Handle(NewHook("received", e, hook[w].env))

\* An unsigned notification of the reward has credited a ticket.
C10_Witness ==
  \E w \in Hooks :
    /\ Unsigned(w)
    /\ IsRewardRedemption(hook[w].event)
    /\ Succeeded(w)
    /\ users[FindUserKey(users, LoginOf(w))].ticketsAvailable = hook[w].ticketsAvailable

\* ------------------------------------------------------------------ C11
\* Invocation w has been handed a delivery that passes the configuration
\* check and the signature check (no signature, or the sender's).
PassesChecks(w) ==
  /\ Handled(w)
  /\ LET e == hook[w].event
     IN \/ e.signature = Absent
        \/ e.signature = ExpectedSignature(e.messageId, e.timestamp, e.body, hook[w].env.secret)

TypeOf(w) == hook[w].event.messageType

\* C11: every notification that passes the configuration and signature
\* checks is answered 204, whether the ticket was credited, rejected as
\* already redeemed, or a store call failed.
C11_NotificationAlways204 ==
  \A w \in Hooks :
    (PassesChecks(w) /\ TypeOf(w) = "notification" /\ hook[w].pc = "done") =>
      /\ hook[w].response = [statusCode |-> 204, body |-> ""]
      /\ hook[w].error = ""

\* ------------------------------------------------------------------ C12
\* Invocation w takes the delivery in this step.
Receives(w) == hook[w].pc \in {"idle", "done"} /\ hook'[w] # hook[w]

\* C12: a notification reaches the credit operation only when it is a
\* channel-point redemption of the configured reward; every other
\* notification is answered 204 at once and the user collection changes
\* only in invocations handling a redemption of the reward.
C12_OnlyRewardRedemptionCredits ==
  [][/\ \A w \in Hooks :
          (Receives(w) /\ PassesChecks(w)' /\ TypeOf(w)' = "notification") =>
            IF IsRewardRedemption(hook'[w].event)
              THEN hook'[w].pc = "getUsers"
              ELSE /\ hook'[w].pc = "done"
                   /\ hook'[w].response = [statusCode |-> 204, body |-> ""]
                   /\ hook'[w].result = ""
                   /\ users' = users
     /\ users' # users =>
          \E w \in Hooks : /\ hook[w].pc \in {"putUser", "patchUser"}
                           /\ IsRewardRedemption(hook[w].event)]_vars

\* ------------------------------------------------------------------ C13
Misconfigured(w) ==
  /\ hook[w].event # NoEvent
  /\ hook[w].env.secret = "" \/ hook[w].env.databaseUrl = ""

\* C13: without the webhook secret or the data-store location every
\* request, whatever its type and its signature, is answered 500 before
\* the signature is looked at, the payload parsed or the store called.
C13_MisconfiguredAnswered500 ==
  \A w \in Hooks :
    Misconfigured(w) =>
      /\ hook[w].pc = "done"
      /\ hook[w].response = [statusCode |-> 500, body |-> "Server configuration error"]
      /\ hook[w].error = ""
      /\ hook[w].result = ""

\* A delivery whose signature has the wrong length is answered 500 when the
\* secret is missing.
C13_Witness ==
  \E w \in Hooks :
    /\ Misconfigured(w) /\ hook[w].env.secret = ""
    /\ hook[w].event.signature = <<PrefixToken, StrayToken>>
    /\ hook[w].response.statusCode = 500

C15_RevocationChangesNothing ==
  [][\A w \in Hooks :
       (PassesChecks(w)' /\ TypeOf(w)' = "revocation") =>
         /\ hook'[w].pc = "done"
         /\ hook'[w].response = [statusCode |-> 204, body |-> ""]
         /\ hook'[w].result = "" /\ hook'[w].error = ""
         /\ Receives(w) => StoreUnchanged]_vars

\* ------------------------------------------------------------------ C16
\* Two usernames that differ at most in the case of their letters.
EqualIgnoringCase(a, b) ==
  /\ Len(a) = Len(b)
  /\ \A i \in 1..Len(a) : LowerChar(a[i]) = LowerChar(b[i])

RecordsNamed(n) == {k \in DOMAIN users : EqualIgnoringCase(users[k].username, n)}

AlreadyClaimedByYou == "This game has already been claimed by you."

\* C16: usernames are matched without regard to case. A credit for a login
\* finds a record whose username differs from it only in case (BOB finds
\* Bob), credits that record and creates none; the claim flow tells the
\* claimant 'already claimed by you' exactly when the stored claimedBy and
\* the entered username differ only in case.
C16_UsernamesMatchIgnoringCase ==
  [][/\ \A w \in Hooks :
          (hook[w].pc = "getUsers" /\ hook'[w] # hook[w]
             /\ RecordsNamed(hook[w].username) # {}) =>
            /\ hook'[w].pc \in {"patchUser", "done"}
            /\ hook'[w].pc = "patchUser" => hook'[w].key \in RecordsNamed(hook[w].username)
     /\ \A w \in Hooks :
          (hook[w].pc = "patchUser" /\ hook'[w] # hook[w]) =>
            /\ DOMAIN users' = DOMAIN users
            /\ \A k \in DOMAIN users :
                 users'[k] # users[k] =>
                   /\ EqualIgnoringCase(users[k].username, hook[w].username)
                   /\ users'[k].ticketsAvailable = users[k].ticketsAvailable + 1
     /\ \A s \in Sessions :
          (FlowStep(s, "getGame", "ready") /\ games[sess[s].gameId].claimed) =>
            LET g == sess[s].gameId
            IN (ErrorShown(s, g) = AlreadyClaimedByYou)
                 <=> EqualIgnoringCase(games[g].claimedBy, sess[s].normalizedUsername)]_vars

\* The record entered as Bob has been credited by a redemption of BOB, no
\* record has been added, and a tab has been told that the game claimed by
\* bob is claimed by its user.
C16_Witness ==
  /\ Cardinality(DOMAIN users) = 2
  /\ \E k \in DOMAIN users :
       /\ users[k].username = <<"B", "o", "b">>
       /\ users[k].lastRedemptionYear # NoYear
  /\ \E w \in Hooks :
       /\ hook[w].pc = "done" /\ hook[w].result = "success"
       /\ JsonParse(hook[w].event.body).userLogin = <<"B", "O", "B">>
  /\ \E s \in Sessions, g \in GameIds :
       /\ sess[s].pc = "ready"
       /\ sess[s].ui[g].errorMessage = AlreadyClaimedByYou
       /\ games[g].claimedBy = bob

\* ------------------------------------------------------------------ C17
\* C17: every game record with claimed = true names its claimant, as a
\* trimmed lower-case username.
C17_ClaimedHasClaimant ==
  \A g \in GameIds :
    games[g].claimed =>
      LET n == games[g].claimedBy
      IN /\ n # Absent
         /\ \A i \in 1..Len(n) : LowerChar(n[i]) = n[i]
         /\ n[1] # " " /\ n[Len(n)] # " "

\* A game claimed by bob, entered with capitals or blanks around it.
C17_Witness ==
  \E g \in GameIds, k \in DOMAIN users :
    /\ games[g].claimed /\ games[g].claimedBy = bob
    /\ users[k].username = <<"B", "o", "b">>
    /\ users[k].gamesClaimed = <<GameName(g)>>

\* ------------------------------------------------------------------ C18
\* The flow of tab s gets the answer to the store call it is waiting for.
Answered(s, at) == sess[s].pc = at /\ sess'[s] # sess[s]

\* C18: a claim attempt that reads a game whose claimed flag is true ends
\* there without a store write, with 'already claimed by you' when the
\* stored claimant and the input agree once normalized and 'claimed by
\* another user' otherwise.
C18_ClaimedGameAborts ==
  [][\A s \in Sessions :
       (Answered(s, "getGame") /\ games[sess[s].gameId].claimed) =>
         LET g == sess[s].gameId
         IN /\ StoreUnchanged
            /\ sess'[s].pc = "ready"
            /\ ErrorShown(s, g) =
                 IF EqualIgnoringCase(games[g].claimedBy, sess[s].normalizedUsername)
                   THEN "This game has already been claimed by you."
                   ELSE "This game has already been claimed by another user."]_vars

\* A tab has been told that the game is claimed by its user, and the user
\* holds one claimed game only.
C18_Witness ==
  \E s \in Sessions, g \in GameIds, k \in DOMAIN users :
    /\ sess[s].pc = "ready"
    /\ sess[s].ui[g].errorMessage = "This game has already been claimed by you."
    /\ games[g].claimed
    /\ EqualIgnoringCase(users[k].username, games[g].claimedBy)
    /\ users[k].gamesClaimed = <<GameName(g)>>

\* ------------------------------------------------------------------ C19
InvalidUsername == "Please enter a valid username."

\* C19: preconditions are checked in order and the first that fails sets
\* the message. A click with a blank username ends at once with 'Please
\* enter a valid username.' and without a store call; only a trimmed,
\* non-empty username goes on to the game read, where a claimed game ends
\* the flow whatever the user's tickets; the ticket check comes last.
C19_PreconditionsInOrder ==
  [][\A s \in Sessions :
       /\ Answered(s, "ready") =>
            /\ StoreUnchanged
            /\ \/ /\ sess'[s].pc = "ready"
                  /\ \E g \in GameIds :
                       /\ ErrorShown(s, g) = InvalidUsername
                       /\ \A o \in GameIds \ {g} : sess'[s].ui[o] = sess[s].ui[o]
               \/ /\ sess'[s].pc = "getGame"
                  /\ LET n == sess'[s].normalizedUsername
                     IN n # << >> /\ n[1] # " " /\ n[Len(n)] # " "
       /\ Answered(s, "getGame") =>
            IF games[sess[s].gameId].claimed
              THEN /\ sess'[s].pc = "ready"
                   /\ ErrorShown(s, sess[s].gameId) \in
                        {"This game has already been claimed by you.",
                         "This game has already been claimed by another user."}
              ELSE sess'[s].pc = "getUsers"
       /\ (Answered(s, "getUsers") /\ sess'[s].pc = "ready") =>
            ErrorShown(s, sess[s].gameId) \in
              {"You do not have enough tickets to claim this game.",
               "Error fetching user data from the database."}]_vars

\* A blank username has been turned away on a game that is claimed in the
\* store: the username is checked before the game is read.
C19_Witness ==
  \E s \in Sessions, g \in GameIds :
    /\ sess[s].pc = "ready"
    /\ sess[s].ui[g].errorMessage = InvalidUsername
    /\ games[g].claimed

\* ------------------------------------------------------------------ C20
\* C20: when a store call of the claim flow fails, the flow ends with the
\* generic message and leaves no partial state: the store does not hold
\* the flow's ticket decrement while the game is unclaimed.
C20_FailureLeavesNoPartialState ==
  [][\A s \in Sessions :
       (sess[s].pc \in {"getGame", "getUsers", "updUser", "updGame"}
          /\ sess'[s].pc = "ready"
          /\ ErrorShown(s, sess[s].gameId) = "An unexpected error occurred. Please try again.") =>
         LET k == sess[s].userKey
             g == sess[s].gameId
         IN ~ /\ k # 0
              /\ users'[k].ticketsAvailable = sess[s].newTicketCount
              /\ users'[k].gamesClaimed = sess[s].newGamesClaimed
              /\ ~games'[g].claimed]_vars

\* ------------------------------------------------------------------ C21
\* C21: no two user records have the same username once lower-cased.
C21_UsernamesUnique ==
  \A k, l \in DOMAIN users :
    k # l => ~EqualIgnoringCase(users[k].username, users[l].username)

\* ------------------------------------------------------------------ C22
IsPrefix(a, b) == Len(a) <= Len(b) /\ SubSeq(b, 1, Len(a)) = a

\* C22: in every step, every user record is still there and its stored
\* gamesClaimed has the previous gamesClaimed as a prefix.
C22_GamesClaimedAppendOnly ==
  [][\A k \in DOMAIN users :
       /\ k \in DOMAIN users'
       /\ IsPrefix(users[k].gamesClaimed, users'[k].gamesClaimed)]_vars

\* ------------------------------------------------------------------ C23
\* C23: for every username at most one game is claimed with claimedBy
\* equal to it, in runs that take redemptions and claim attempts one after
\* the other.
C23_OneGamePerPerson ==
  \A n \in Names :
    \A g, o \in GameIds :
      (games[g].claimed /\ games[o].claimed
         /\ games[g].claimedBy = n /\ games[o].claimedBy = n) => g = o

\* ------------------------------------------------------------------ C24
cy == <<"c", "y">>

NoGameOf(gamesVal, n) ==
  \A g \in GameIds : ~(gamesVal[g].claimed /\ gamesVal[g].claimedBy = n)

OnlyGameOf(gamesVal, n, g) ==
  \A o \in GameIds : (gamesVal[o].claimed /\ gamesVal[o].claimedBy = n) <=> o = g

\* The ledger and the catalog as the scenario has them after the
\* redemption, and after the claim.
EndToEndLedger(usersVal, gamesVal) ==
  LET k == FindUserKey(usersVal, cy)
  IN /\ k # 0
     /\ \/ /\ usersVal[k].ticketsAvailable = 1
           /\ usersVal[k].gamesClaimed = << >>
           /\ NoGameOf(gamesVal, cy)
        \/ \E g \in GameIds :
             /\ usersVal[k].ticketsAvailable = 0
             /\ usersVal[k].gamesClaimed = <<GameName(g)>>
             /\ OnlyGameOf(gamesVal, cy, g)

\* C24: a user without a record (cy) who has redeemed the reward once
\* holds one ticket; a claim leaves no ticket, the game's name as the only
\* entry of gamesClaimed and the game claimed by cy; the next claim
\* attempt is turned away with 'not enough tickets' and changes nothing.
C24_EndToEnd ==
  [][/\ (InFlight' = 0 /\ granted'[cy] = 1) => EndToEndLedger(users', games')
     /\ \A s \in Sessions :
          (Answered(s, "getUsers") /\ sess[s].normalizedUsername = cy
             /\ granted[cy] = 1 /\ ~NoGameOf(games, cy)) =>
            /\ sess'[s].pc = "ready"
            /\ ErrorShown(s, sess[s].gameId) =
                 "You do not have enough tickets to claim this game."
            /\ StoreUnchanged]_vars

\* The scenario has run to its end.
C24_Witness ==
  /\ granted[cy] = 1
  /\ FindUserKey(users, cy) # 0
  /\ users[FindUserKey(users, cy)].ticketsAvailable = 0
  /\ users[FindUserKey(users, cy)].gamesClaimed = <<GameName("g1")>>
  /\ games["g1"].claimed /\ games["g1"].claimedBy = cy
  /\ ~games["g2"].claimed
  /\ \E s \in Sessions :
       /\ sess[s].pc = "ready"
       /\ sess[s].ui["g2"].errorMessage = "You do not have enough tickets to claim this game."

\* ------------------------------------------------------------------ C25
\* The cards a tab shows.
Cards(s) == {sess[s].ui[g] : g \in DOMAIN sess[s].ui}

\* The value in the card's verification field is the claimant's name, up
\* to the case of its letters.
EnteredClaimant(card) ==
  /\ card.usernameVerification # NoEntry
  /\ EqualIgnoringCase(card.usernameVerification, card.claimedBy)

\* C25: the card of a claimed game shows the code exactly when the value
\* in its verification field equals claimedBy up to case, and the hint in
\* every other case; never both.
C25_CodeShownToClaimantOnly ==
  \A s \in Sessions :
    \A card \in Cards(s) :
      card.claimed =>
        /\ ShowsCode(card) <=> EnteredClaimant(card)
        /\ ShowsHint(card) <=> ~EnteredClaimant(card)

\* The code is on show for a visitor who typed Bob on a game claimed by bob.
C25_Witness ==
  \E s \in Sessions :
    \E card \in Cards(s) :
      /\ card.claimed /\ card.claimedBy = bob
      /\ card.usernameVerification = <<"B", "o", "b">>
      /\ ShowsCode(card) /\ ~ShowsHint(card)

\* ------------------------------------------------------------------ C26
Entries(seq) == {seq[i] : i \in DOMAIN seq}

\* The debit of every claimed game is in the store.
DebitWritten(usersVal, gamesVal) ==
  \A g \in GameIds :
    gamesVal[g].claimed =>
      LET k == FindUserKey(usersVal, gamesVal[g].claimedBy)
      IN k # 0 /\ GameName(g) \in Entries(usersVal[k].gamesClaimed)

C27_CreationNeverOverwrites ==
  [][\A w \in Hooks :
       /\ (hook[w].pc = "putUser" /\ hook'[w] # hook[w]) =>
            \A k \in DOMAIN users :
              ~EqualIgnoringCase(users[k].username, hook[w].username) =>
                users'[k] = users[k]
       /\ (CreditReturns(w) /\ hook'[w].result = "success") =>
            LET k == FindUserKey(users', ToLowerCase(hook[w].username))
            IN k # 0 /\ users'[k].ticketsAvailable >= 1]_vars

\* ------------------------------------------------------------------ C28
\* C28: the PATCH of a successful credit changes nothing but
\* ticketsAvailable and lastRedemptionYear of the credited record: its
\* username and gamesClaimed, the other users and the games stay.
C28_CreditWritesTwoFields ==
  [][\A w \in Hooks :
       (hook[w].pc = "patchUser" /\ hook'[w].result = "success") =>
         /\ games' = games
         /\ hook[w].key \in DOMAIN users
         /\ users' = [users EXCEPT
                        ![hook[w].key].ticketsAvailable = hook'[w].ticketsAvailable,
                        ![hook[w].key].lastRedemptionYear = hook'[w].currentYear]]_vars

\* A credit for Bob has returned after a claim flow of Bob wrote
\* gamesClaimed between the credit's read and its PATCH.
C28_Witness ==
  \E w \in Hooks :
    /\ Succeeded(w) /\ LoginOf(w) = bob
    /\ FindUserKey(users, bob) # 0
    /\ users[FindUserKey(users, bob)].gamesClaimed # << >>
    /\ users[FindUserKey(users, bob)].ticketsAvailable = 2
    /\ users[FindUserKey(users, bob)].lastRedemptionYear # NoYear

\* ------------------------------------------------------------------ C29
\* One credit has succeeded for n and one claim flow has claimed a game
\* for n, and nothing is running.
OneCreditOneClaim(n) ==
  /\ InFlight = 0
  /\ Cardinality({w \in Hooks : hook[w].pc # "idle"}) = 1
  /\ \E w \in Hooks : Succeeded(w) /\ LoginOf(w) = n
  /\ Cardinality({s \in Sessions : sess[s].justClaimedGameId # ""}) = 1
  /\ \E s \in Sessions :
       /\ sess[s].justClaimedGameId # ""
       /\ GamesClaimedBy(n) = {sess[s].justClaimedGameId}

\* C29: after one credit and one claim flow for the same user, however
\* interleaved, ticketsAvailable is the initial value plus one minus one.
C29_LedgerConserved ==
  \A n \in Names :
    OneCreditOneClaim(n) =>
      /\ FindUserKey(users, n) # 0
      /\ users[FindUserKey(users, n)].ticketsAvailable = granted[n] - 1

\* ------------------------------------------------------------------ C30
\* C30: a credit call that finds the user's lastRedemptionYear absent or
\* earlier than the current year succeeds, adds one to the tickets the
\* record holds and sets lastRedemptionYear to the current year; and no
\* step lowers a record's lastRedemptionYear.
C30_YearRollover ==
  [][/\ \A w \in Hooks :
          LET k == FindUserKey(users, ToLowerCase(hook[w].username))
          IN (CreditReturns(w) /\ k # 0
                /\ users[k].lastRedemptionYear < hook'[w].currentYear) =>
               /\ hook'[w].result = "success"
               /\ users'[k].ticketsAvailable = users[k].ticketsAvailable + 1
               /\ users'[k].lastRedemptionYear = hook'[w].currentYear
     /\ \A k \in DOMAIN users :
          users'[k].lastRedemptionYear >= users[k].lastRedemptionYear]_vars

\* A user credited in the first year and again in the second holds both
\* tickets.
C30_Witness ==
  \E w, v \in Hooks :
    /\ Succeeded(w) /\ Succeeded(v)
    /\ LoginOf(w) = LoginOf(v)
    /\ hook[w].currentYear = 1 /\ hook[v].currentYear = 2
    /\ users[FindUserKey(users, LoginOf(v))].lastRedemptionYear = 2
    /\ users[FindUserKey(users, LoginOf(v))].ticketsAvailable
         = hook[w].ticketsAvailable + 1

====
